---- MODULE Spec2Model ----
(***************************************************************************)
(* Shopify Inventory Converter (src/app.py).                               *)
(*                                                                         *)
(* convert_to_shopify_format turns a wide table (one row per style/color,  *)
(* columns 'Size 1'..'Size 8' and 'ots1'..'ots8') into one row per         *)
(* in-stock variant; the Streamlit script around it parses the upload,     *)
(* checks the required columns, converts, serialises and offers the        *)
(* download.                                                               *)
(*                                                                         *)
(* Cell text is a sequence of one-character strings, so that split,        *)
(* indexing and strip are computed; a column name is a string, and         *)
(* Chars gives the characters of a slot column's name.  A cell is a record [k, s, v]:                  *)
(*   k = "nan"  a missing value (NaN)                                      *)
(*   k = "str"  the text s                                                 *)
(*   k = "num"  the float v/2 (v counts halves, so 0.5 is v = 1)           *)
(*   k = "inf"  the float +inf                                             *)
(*   k = "int"  the integer v                                              *)
(* A table is [columns, rows]: rows is a sequence of functions from column *)
(* name to cell.                                                           *)
(***************************************************************************)
EXTENDS Integers, Sequences, FiniteSets, TLC

VARIABLES
    nanAsText,        \* the installed pandas: Series.astype(str) turns NaN into the
                      \* text 'nan' (pandas < 3) or keeps it missing (pandas >= 3)
    uploaded_file,    \* the uploaded file: [parses, table]
    pc,               \* position in the script / of the direct caller
    data,             \* pd.read_csv(uploaded_file), line 86
    df_clean,         \* result of the conversion, line 95
    csv_output,       \* df_clean.to_csv(index=False), line 98
    error,            \* the st.error shown: "none", "missing_columns", "unexpected"
    download,         \* the download button offered: [offered, data]
    convertCalls,     \* how many times line 95 invoked convert_to_shopify_format
    df,               \* the frame a direct caller holds and passes to the function
    results           \* results of the direct calls, in call order

vars == <<nanAsText, uploaded_file, pc, data, df_clean, csv_output,
          error, download, convertCalls, df, results>>

-----------------------------------------------------------------------------
(* Bounds of the input space.                                              *)

\* rows of an input table
MaxRows == 2
\* slots (of the 8) for which an input table has a 'Size i' or an 'ots i' column
MaxSlots == 2
\* a table has at most MaxCells = rows * slots slot pairs
MaxCells == 2
\* numeric quantities range over -0.5 .. MaxHalves/2 in steps of 0.5
MaxHalves == 2
\* direct calls of the function on the same frame
MaxCalls == 2

-----------------------------------------------------------------------------
(* Cells and text.                                                         *)

NaN == [k |-> "nan", s |-> <<>>, v |-> 0]
Text(s) == [k |-> "str", s |-> s, v |-> 0]
Num(h) == [k |-> "num", s |-> <<>>, v |-> h]
Inf == [k |-> "inf", s |-> <<>>, v |-> 0]
IntCell(n) == [k |-> "int", s |-> <<>>, v |-> n]

Digits == <<"0", "1", "2", "3", "4", "5", "6", "7", "8", "9">>

\* str(n) / f'{n}' of a non-negative integer
RECURSIVE IntToStr(_)
IntToStr(n) ==
    IF n < 10 THEN <<Digits[n + 1]>>
    ELSE IntToStr(n \div 10) \o <<Digits[(n % 10) + 1]>>

\* s.split(sep): cut at every occurrence of the one-character separator
RECURSIVE Split(_, _)
Split(s, sep) ==
    IF \A i \in 1..Len(s) : s[i] # sep THEN <<s>>
    ELSE LET p == CHOOSE i \in 1..Len(s) :
                     s[i] = sep /\ \A j \in 1..(i - 1) : s[j] # sep
         IN <<SubSeq(s, 1, p - 1)>> \o Split(SubSeq(s, p + 1, Len(s)), sep)

Whitespace == {" ", "\t", "\n", "\r"}

\* s.strip(): drop leading and trailing whitespace
RECURSIVE Strip(_)
Strip(s) ==
    IF s = <<>> THEN s
    ELSE IF s[1] \in Whitespace THEN Strip(Tail(s))
    ELSE IF s[Len(s)] \in Whitespace THEN Strip(SubSeq(s, 1, Len(s) - 1))
    ELSE s

-----------------------------------------------------------------------------
(* Column names.                                                           *)

NumSlots == 8

StyleMajor == "Style major"
Color == "Color"
Handle == "Handle"
Option1Name == "Option1 Name"
Option1Value == "Option1 Value"
Option2Name == "Option2 Name"
Option2Value == "Option2 Value"
Option3Name == "Option3 Name"
Option3Value == "Option3 Value"
NewYorkShowroom == "New York Showroom"

\* size_cols = [f'Size {i}' for i in range(1, 9)]
size_cols ==
    <<"Size 1", "Size 2", "Size 3", "Size 4", "Size 5", "Size 6", "Size 7", "Size 8">>
\* ots_cols = [f'ots{i}' for i in range(1, 9)]
ots_cols == <<"ots1", "ots2", "ots3", "ots4", "ots5", "ots6", "ots7", "ots8">>

SizeCol(i) == size_cols[i]
OtsCol(i) == ots_cols[i]

\* the characters of a slot column's name: f'Size {i}' and f'ots{i}'
Chars(name) ==
    IF \E i \in 1..NumSlots : name = size_cols[i]
    THEN <<"S", "i", "z", "e", " ">> \o IntToStr(CHOOSE i \in 1..NumSlots : name = size_cols[i])
    ELSE <<"o", "t", "s">> \o IntToStr(CHOOSE i \in 1..NumSlots : name = ots_cols[i])

\* [col for col in cols if col in columns]
Present(cols, columns) == SelectSeq(cols, LAMBDA c : c \in columns)

Range(f) == {f[i] : i \in DOMAIN f}

-----------------------------------------------------------------------------
(* pandas operations used by convert_to_shopify_format.                    *)

\* text of decimal digits -> its value; used by ToNumeric
RECURSIVE DigitsValue(_)
DigitsValue(s) ==
    IF s = <<>> THEN 0
    ELSE 10 * DigitsValue(SubSeq(s, 1, Len(s) - 1))
         + ((CHOOSE d \in 1..10 : Digits[d] = s[Len(s)]) - 1)

\* pd.to_numeric(x, errors='coerce') of one cell: a number stays, numeric text
\* is parsed, anything else becomes NaN
ToNumeric(c) ==
    CASE c.k = "num" -> c
      [] c.k = "int" -> Num(2 * c.v)
      [] c.k = "inf" -> c
      [] c.k = "str" ->
            LET t == Strip(c.s)
            IN IF t # <<>> /\ \A i \in 1..Len(t) : t[i] \in Range(Digits)
               THEN Num(2 * DigitsValue(t))
               ELSE NaN
      [] OTHER -> NaN

\* .fillna(x)
FillNa(c, x) == IF c.k = "nan" THEN x ELSE c

\* (numeric cell) > 0
GreaterThanZero(c) == c.k = "inf" \/ (c.k = "num" /\ c.v > 0)

\* .astype(int) of one float cell: truncation toward zero; a non-finite value
\* makes pandas raise IntCastingNaNError
CanCastToInt(c) == c.k = "num"
AstypeInt(c) == IF c.v >= 0 THEN c.v \div 2 ELSE 0 - ((0 - c.v) \div 2)

\* .astype(str) of one object cell: text stays; a missing value becomes the
\* text 'nan', or stays missing where the installed pandas keeps it
AstypeStr(c) ==
    IF c.k = "nan"
    THEN IF nanAsText THEN Text(<<"n", "a", "n">>) ELSE NaN
    ELSE Text(c.s)

\* .str.strip().str.len() > 0: False on a missing value
StripLenPositive(c) == c.k = "str" /\ Len(Strip(c.s)) > 0

\* pd.melt(frame, id_vars=['Style major', 'Color'], value_vars=cols,
\*         var_name=..., value_name=...): for each value column in turn, one
\* record per row
Melt(frame, cols) ==
    LET N == Len(frame.rows)
    IN [t \in 1..(Len(cols) * N) |->
          LET col == cols[((t - 1) \div N) + 1]
              row == frame.rows[((t - 1) % N) + 1]
          IN [Style_major |-> row[StyleMajor], Color |-> row[Color],
              var |-> col, value |-> row[col]]]

\* df_sizes['Key'] = df_sizes['Size_Col_Name'].astype(str).str.split(' ').str[-1]
SizeKey(name) == LET parts == Split(name, " ") IN parts[Len(parts)]

\* a key taken one character too early: .str[2]
OtsKeyOneEarly(name) == <<name[3]>>

\* df_ots['Key'] = df_ots['OTS_Col_Name'].astype(str).str[3]
OtsKey(name) == <<name[4]>>

\* the merge condition: on=['Style major', 'Color', 'Key']
MergeOn(l, r) ==
    /\ l.Style_major = r.Style_major
    /\ l.Color = r.Color
    /\ l.Key = r.Key

\* pd.merge(left, right, on=[...], how='inner'): every pair of a left and a
\* right record that agree on the keys, in the order of the left records
RECURSIVE Merge(_, _)
Merge(left, right) ==
    IF left = <<>> THEN <<>>
    ELSE LET l == Head(left)
             hits == SelectSeq(right, LAMBDA r : MergeOn(l, r))
         IN [j \in 1..Len(hits) |->
                [Style_major |-> l.Style_major, Color |-> l.Color,
                 Size_Col_Name |-> l.Size_Col_Name,
                 Option2_Value |-> l.Option2_Value, Key |-> l.Key,
                 OTS_Col_Name |-> hits[j].OTS_Col_Name,
                 New_York_Showroom |-> hits[j].New_York_Showroom]]
         \o Merge(Tail(left), right)

-----------------------------------------------------------------------------
(* convert_to_shopify_format, step by step.                                *)

NoTable == [columns |-> <<>>, rows |-> <<>>]

FinalColumns == <<Handle, Option1Name, Option1Value, Option2Name,
                  Option2Value, Option3Name, Option3Value, NewYorkShowroom>>

\* line 22: the columns selected; a KeyError when 'Style major' or 'Color'
\* is not a column
CoreColumns(frame) ==
    <<StyleMajor, Color>> \o Present(size_cols, Range(frame.columns))
                          \o Present(ots_cols, Range(frame.columns))

\* a function that itself insists on all four required columns
SelectRaisesUnlessAllRequired(frame) ==
    \E c \in {StyleMajor, Color, SizeCol(1), OtsCol(1)} : c \notin Range(frame.columns)

SelectRaises(frame) ==
    StyleMajor \notin Range(frame.columns) \/ Color \notin Range(frame.columns)

\* lines 22-23: df_core, a copy of the selected columns with Color normalised
DfCore(frame) ==
    LET cols == CoreColumns(frame)
    IN [columns |-> cols,
        rows |-> [n \in 1..Len(frame.rows) |->
                    [c \in Range(cols) |->
                        IF c = Color
                        THEN AstypeStr(FillNa(frame.rows[n][c], Text(<<>>)))
                        ELSE frame.rows[n][c]]]]

\* lines 26-32 and 44
DfSizes(core) ==
    LET m == Melt(core, Present(size_cols, Range(core.columns)))
    IN [t \in 1..Len(m) |->
          [Style_major |-> m[t].Style_major, Color |-> m[t].Color,
           Size_Col_Name |-> m[t].var, Option2_Value |-> m[t].value,
           Key |-> SizeKey(Chars(m[t].var))]]

\* lines 35-41 and 45
DfOts(core) ==
    LET m == Melt(core, Present(ots_cols, Range(core.columns)))
    IN [t \in 1..Len(m) |->
          [Style_major |-> m[t].Style_major, Color |-> m[t].Color,
           OTS_Col_Name |-> m[t].var, New_York_Showroom |-> m[t].value,
           Key |-> OtsKey(Chars(m[t].var))]]

\* lines 48-50
DfCombined(frame) ==
    LET core == DfCore(frame) IN Merge(DfSizes(core), DfOts(core))

\* lines 53-56: the filter
Keep(r) ==
    /\ GreaterThanZero(FillNa(ToNumeric(r.New_York_Showroom), Num(0)))
    /\ StripLenPositive(AstypeStr(r.Option2_Value))

DfCleaned(frame) == SelectSeq(DfCombined(frame), Keep)

\* line 64: the integer coercion of one surviving quantity
Quantity(r) == AstypeInt(FillNa(ToNumeric(r.New_York_Showroom), Num(0)))

CastRaises(frame) ==
    LET cleaned == DfCleaned(frame)
    IN \E t \in DOMAIN cleaned :
          ~CanCastToInt(FillNa(ToNumeric(cleaned[t].New_York_Showroom), Num(0)))

\* lines 59-70: rename, constant columns, integer quantity, column order
FinalRow(r) ==
    [c \in Range(FinalColumns) |->
        CASE c = Handle -> r.Style_major
          [] c = Option1Name -> Text(<<"C", "o", "l", "o", "r">>)
          [] c = Option1Value -> r.Color
          [] c = Option2Name -> Text(<<"S", "i", "z", "e">>)
          [] c = Option2Value -> r.Option2_Value
          [] c = Option3Name -> NaN
          [] c = Option3Value -> NaN
          [] OTHER -> IntCell(Quantity(r))]

DfFinal(frame) ==
    LET cleaned == DfCleaned(frame)
    IN [columns |-> FinalColumns,
        rows |-> [t \in 1..Len(cleaned) |-> FinalRow(cleaned[t])]]

\* the call: what is raised, and the table returned
convert_to_shopify_format(frame) ==
    IF SelectRaises(frame) THEN [raised |-> "KeyError", value |-> NoTable]
    ELSE IF CastRaises(frame)
    THEN [raised |-> "IntCastingNaNError", value |-> NoTable]
    ELSE [raised |-> "none", value |-> DfFinal(frame)]

-----------------------------------------------------------------------------
(* The Streamlit script, lines 84-112.                                     *)

\* line 89
required_cols == <<StyleMajor, Color, SizeCol(1), OtsCol(1)>>

\* any(...) written for all(...)
RequiredPresentAny(frame) ==
    \E i \in DOMAIN required_cols : required_cols[i] \in Range(frame.columns)

\* line 90: all(col in data.columns for col in required_cols)
RequiredPresent(frame) ==
    \A i \in DOMAIN required_cols : required_cols[i] \in Range(frame.columns)

\* one field of to_csv: a missing value is the empty field
CsvField(c) ==
    CASE c.k = "nan" -> <<>>
      [] c.k = "str" -> c.s
      [] OTHER -> IF c.v >= 0 THEN IntToStr(c.v) ELSE <<"-">> \o IntToStr(0 - c.v)

\* line 98: df_clean.to_csv(index=False): the header line, then one line per
\* row, each line the sequence of its fields
ToCsv(frame) ==
    <<frame.columns>> \o
    [t \in 1..Len(frame.rows) |->
        [j \in 1..Len(frame.columns) |-> CsvField(frame.rows[t][frame.columns[j]])]]

NoDownload == [offered |-> FALSE, data |-> <<>>]

-----------------------------------------------------------------------------
(* The input space.                                                        *)

\* size labels: missing, whitespace only, a label
Labels == {NaN, Text(<<" ">>), Text(<<"S">>)}

\* quantities: missing, non-numeric text, -1, 0, 0.5, .., MaxHalves/2, +inf
Quantities ==
    {NaN, Text(<<"x">>), Inf, Num(0 - 2)} \cup {Num(h) : h \in 0..MaxHalves}

StyleNames == <<"A", "B", "C", "D">>
\* the style of row n is one of the first n names (rows that differ only by
\* a renaming of styles behave alike)
Styles(n) == {Text(<<StyleNames[i]>>) : i \in 1..(IF n < 4 THEN n ELSE 4)}

Colors == {NaN, Text(<<"R", "e", "d">>)}

\* the slots an input table may use: the first two and the last
InputSlots == {1, 2, NumSlots}

\* which columns a table has: the two key columns, and for each slot in
\* DOMAIN slots its 'Size i' column, its 'ots i' column or both
Layouts ==
    {[style |-> st, color |-> co, slots |-> sl] :
        st \in BOOLEAN, co \in BOOLEAN,
        sl \in UNION {[U -> {"size", "ots", "both"}] :
                        U \in {V \in SUBSET InputSlots : Cardinality(V) <= MaxSlots}}}

HasSize(lay, i) == i \in DOMAIN lay.slots /\ lay.slots[i] \in {"size", "both"}
HasOts(lay, i) == i \in DOMAIN lay.slots /\ lay.slots[i] \in {"ots", "both"}

LayoutColumns(lay) ==
    (IF lay.style THEN <<StyleMajor>> ELSE <<>>)
    \o (IF lay.color THEN <<Color>> ELSE <<>>)
    \o SelectSeq(size_cols, LAMBDA c : \E i \in 1..NumSlots : HasSize(lay, i) /\ c = SizeCol(i))
    \o SelectSeq(ots_cols, LAMBDA c : \E i \in 1..NumSlots : HasOts(lay, i) /\ c = OtsCol(i))

\* the rows a table of this layout may have at position n
RowsAt(lay, n) ==
    LET S == {i \in 1..NumSlots : HasSize(lay, i)}
        O == {i \in 1..NumSlots : HasOts(lay, i)}
    IN {[c \in Range(LayoutColumns(lay)) |->
            IF c = StyleMajor THEN st
            ELSE IF c = Color THEN co
            ELSE IF \E i \in S : c = SizeCol(i)
                 THEN sz[CHOOSE i \in S : c = SizeCol(i)]
                 ELSE ot[CHOOSE i \in O : c = OtsCol(i)]] :
          st \in Styles(n), co \in Colors, sz \in [S -> Labels], ot \in [O -> Quantities]}

RECURSIVE RowSeqs(_, _)
RowSeqs(lay, n) ==
    IF n = 0 THEN {<<>>}
    ELSE {Append(rs, r) : rs \in RowSeqs(lay, n - 1), r \in RowsAt(lay, n)}

\* a table has up to MaxRows rows and MaxSlots slots with rows * slots <=
\* MaxCells; a table that lacks a key column has rows * slots <= 1
RowCounts(lay) ==
    {m \in 0..MaxRows :
        m * Cardinality(DOMAIN lay.slots)
          <= (IF lay.style /\ lay.color THEN MaxCells ELSE 1)}

-----------------------------------------------------------------------------
(* State machine.                                                          *)

Init ==
    /\ nanAsText \in BOOLEAN
    /\ \/ \E lay \in Layouts : \E n \in RowCounts(lay) : \E rs \in RowSeqs(lay, n) :
             uploaded_file = [parses |-> TRUE,
                              table |-> [columns |-> LayoutColumns(lay), rows |-> rs]]
       \* an upload that does not parse: pd.read_csv raises
       \/ uploaded_file = [parses |-> FALSE, table |-> NoTable]
    /\ pc = "start"
    /\ data = NoTable
    /\ df_clean = NoTable
    /\ csv_output = <<>>
    /\ error = "none"
    /\ download = NoDownload
    /\ convertCalls = 0
    /\ df = uploaded_file.table
    /\ results = <<>>

\* line 86: data = pd.read_csv(uploaded_file); an exception goes to line 111
ReadCsv ==
    /\ pc = "start"
    /\ IF uploaded_file.parses
       THEN /\ data' = uploaded_file.table
            /\ pc' = "check"
            /\ error' = error
       ELSE /\ error' = "unexpected"
            /\ pc' = "done"
            /\ data' = data
    /\ UNCHANGED <<nanAsText, uploaded_file, df_clean, csv_output,
                   download, convertCalls, df, results>>

\* lines 89-92: the required-column check
CheckColumns ==
    /\ pc = "check"
    /\ IF ~RequiredPresent(data)
       THEN /\ error' = "missing_columns"
            /\ pc' = "done"
       ELSE /\ pc' = "convert"
            /\ error' = error
    /\ UNCHANGED <<nanAsText, uploaded_file, data, df_clean, csv_output,
                   download, convertCalls, df, results>>

\* a conversion that swallows its exception and goes on with an empty table
ConvertSwallowingException ==
    /\ pc = "convert"
    /\ convertCalls' = convertCalls + 1
    /\ df_clean' = convert_to_shopify_format(data).value
    /\ pc' = "serialize"
    /\ UNCHANGED <<nanAsText, uploaded_file, data, csv_output, error,
                   download, df, results>>

\* line 95: df_clean = convert_to_shopify_format(data); an exception goes to
\* line 111
Convert ==
    /\ pc = "convert"
    /\ convertCalls' = convertCalls + 1
    /\ LET r == convert_to_shopify_format(data)
       IN IF r.raised = "none"
          THEN /\ df_clean' = r.value
               /\ pc' = "serialize"
               /\ error' = error
          ELSE /\ error' = "unexpected"
               /\ pc' = "done"
               /\ df_clean' = df_clean
    /\ UNCHANGED <<nanAsText, uploaded_file, data, csv_output, download,
                   df, results>>

\* line 98: csv_output = df_clean.to_csv(index=False).encode('utf-8')
Serialize ==
    /\ pc = "serialize"
    /\ csv_output' = ToCsv(df_clean)
    /\ pc' = "offer"
    /\ UNCHANGED <<nanAsText, uploaded_file, data, df_clean, error,
                   download, convertCalls, df, results>>

\* lines 101-109: the header and st.download_button(data=csv_output)
OfferDownload ==
    /\ pc = "offer"
    /\ download' = [offered |-> TRUE, data |-> csv_output]
    /\ pc' = "done"
    /\ UNCHANGED <<nanAsText, uploaded_file, data, df_clean, csv_output,
                   error, convertCalls, df, results>>

\* the Color normalisation of line 23 done on the caller's frame, no copy
FrameNormalisedInPlace(frame) ==
    IF SelectRaises(frame) THEN frame
    ELSE [frame EXCEPT !.rows =
            [n \in DOMAIN frame.rows |->
                [frame.rows[n] EXCEPT ![Color] = AstypeStr(FillNa(@, Text(<<>>)))]]]

\* the caller's frame after a call: line 22 works on a copy, so the frame
\* passed in is as it was
FrameAfterCall(frame) == frame

\* a direct call convert_to_shopify_format(df), as a test or another caller
\* makes it, with no column check before it
CallTransform ==
    /\ pc \in {"start", "called"}
    /\ Len(results) < MaxCalls
    /\ results' = Append(results, convert_to_shopify_format(df))
    /\ df' = FrameAfterCall(df)
    /\ pc' = "called"
    /\ UNCHANGED <<nanAsText, uploaded_file, data, df_clean, csv_output,
                   error, download, convertCalls>>

Next ==
    \/ ReadCsv
    \/ CheckColumns
    \/ Convert
    \/ Serialize
    \/ OfferDownload
    \/ CallTransform

Spec == Init /\ [][Next]_vars

-----------------------------------------------------------------------------
(* Properties.                                                             *)

\* every table the function has returned so far: to a direct caller, and to
\* the script
Outputs == {results[k].value : k \in DOMAIN results} \cup {df_clean}

\* the cell of an output row under a column
Field(row, col) == row[col]

\* C1: every output row carries an integer quantity strictly greater than 0,
\* whatever the source ots cell held.
C1_QuantityPositive ==
    \A o \in Outputs : \A t \in DOMAIN o.rows :
        /\ Field(o.rows[t], "New York Showroom").k = "int"
        /\ Field(o.rows[t], "New York Showroom").v > 0

\* C2: every output row's size label is text that is non-empty after
\* trimming; a missing, empty or whitespace-only size cell gives no row.
C2_LabelNonEmpty ==
    \A o \in Outputs : \A t \in DOMAIN o.rows :
        /\ Field(o.rows[t], "Option2 Value").k = "str"
        /\ Strip(Field(o.rows[t], "Option2 Value").s) # <<>>

\* the joined records of a frame that has the key columns
Joined(frame) ==
    IF "Style major" \in Range(frame.columns) /\ "Color" \in Range(frame.columns)
    THEN DfCombined(frame)
    ELSE <<>>

\* the key extracted from 'Size i' equals the key extracted from 'ots j'
\* exactly when i = j
KeysAgreeOnSameSlotOnly ==
    \A i \in 1..8 : \A j \in 1..8 :
        (SizeKey(Chars(size_cols[i])) = OtsKey(Chars(ots_cols[j]))) <=> (i = j)

\* C3: the key of 'Size i' equals the key of 'ots j' exactly when i = j, and
\* every joined record of a call pairs column 'Size i' with column 'ots i'
\* of the same slot i.
C3_PositionalPairing ==
    /\ KeysAgreeOnSameSlotOnly
    /\ results # <<>> =>
          LET J == Joined(df)
          IN \A t \in DOMAIN J : \E i \in 1..8 :
                /\ J[t].Size_Col_Name = size_cols[i]
                /\ J[t].OTS_Col_Name = ots_cols[i]

\* C3 witness: a call on a table with the size and quantity columns of two
\* slots has joined records of both slots and returned rows.
C3_Witness ==
    /\ results # <<>>
    /\ results[1].raised = "none"
    /\ results[1].value.rows # <<>>
    /\ LET J == Joined(df)
       IN \E a \in DOMAIN J : \E b \in DOMAIN J :
             J[a].Size_Col_Name # J[b].Size_Col_Name

\* a table lacks one of the required columns
Lacks(frame) ==
    \E c \in {"Style major", "Color", "Size 1", "ots1"} : c \notin Range(frame.columns)

LacksKey(frame) ==
    \E c \in {"Style major", "Color"} : c \notin Range(frame.columns)

\* slot i has both its columns in the table
BothPresent(frame, i) ==
    size_cols[i] \in Range(frame.columns) /\ ots_cols[i] \in Range(frame.columns)

\* C4 as stated: the function itself, called with a table that lacks a
\* required column, fails and returns no table.
C4_TransformRejectsMissingRequired ==
    \A k \in DOMAIN results :
        Lacks(df) => results[k].raised # "none" /\ results[k].value = NoTable

\* C4 amended: the function fails (KeyError at the column selection, no table
\* returned) exactly when 'Style major' or 'Color' is missing; a table that
\* has both but lacks 'Size 1' or 'ots1' raises no such error, and a table
\* it returns for it has the eight output columns and rows only where some
\* slot has both its columns.
C4_OnlyKeyColumnsGuarded ==
    \A k \in DOMAIN results :
        /\ LacksKey(df) => results[k].raised = "KeyError" /\ results[k].value = NoTable
        /\ ~LacksKey(df) => results[k].raised # "KeyError"
        /\ (~LacksKey(df) /\ results[k].raised = "none") =>
              /\ results[k].value.columns = <<"Handle", "Option1 Name", "Option1 Value",
                                             "Option2 Name", "Option2 Value", "Option3 Name",
                                             "Option3 Value", "New York Showroom">>
              /\ results[k].value.rows # <<>> => \E i \in 1..8 : BothPresent(df, i)

\* C4 witness: a call on a table with the key columns and slot 2 but without
\* 'Size 1' and 'ots1' returned a table with a row.
C4_Witness ==
    /\ results # <<>>
    /\ ~LacksKey(df)
    /\ "Size 1" \notin Range(df.columns)
    /\ "ots1" \notin Range(df.columns)
    /\ BothPresent(df, 2)
    /\ results[1].raised = "none"
    /\ results[1].value.rows # <<>>

\* C5: in the upload flow the conversion is invoked only on a table that has
\* the required columns; for an upload lacking one, the conversion is never
\* invoked, no download is offered, and the run ends with the
\* missing-columns error.
C5_CheckBeforeConvert ==
    /\ convertCalls > 0 => ~Lacks(data)
    /\ pc \in {"convert", "serialize", "offer"} => ~Lacks(data)
    /\ (uploaded_file.parses /\ Lacks(uploaded_file.table)) =>
          /\ convertCalls = 0
          /\ ~download.offered
          /\ df_clean = NoTable
          /\ pc = "done" => error = "missing_columns"

\* C5 witness: an upload with rows and 'Style major' but without 'ots1' has
\* ended with the missing-columns error.
C5_Witness ==
    /\ pc = "done"
    /\ error = "missing_columns"
    /\ data.rows # <<>>
    /\ "Style major" \in Range(data.columns)
    /\ "ots1" \notin Range(data.columns)

\* the quantity cell read as a number is > 0 (non-numeric or missing = 0)
PositiveNumber(c) == (c.k = "num" /\ c.v > 0) \/ c.k = "inf"

\* the label is text that is non-empty after trimming
NonEmptyLabel(c) == c.k = "str" /\ Strip(c.s) # <<>>

\* the (row, slot) pairs of a table that the claim says give an output row
ExpectedPairs(frame) ==
    {p \in (DOMAIN frame.rows) \X (1..8) :
        /\ BothPresent(frame, p[2])
        /\ PositiveNumber(frame.rows[p[1]][ots_cols[p[2]]])
        /\ NonEmptyLabel(frame.rows[p[1]][size_cols[p[2]]])}

\* the integer part of a finite quantity
IntegerPart(c) == IF c.k = "num" THEN c.v \div 2 ELSE 0

\* the output row the claim describes for row n and slot i
ExpectedRow(frame, n, i) ==
    [c \in {"Handle", "Option1 Name", "Option1 Value", "Option2 Name",
            "Option2 Value", "Option3 Name", "Option3 Value", "New York Showroom"} |->
        CASE c = "Handle" -> frame.rows[n]["Style major"]
          [] c = "Option1 Name" -> Text(<<"C", "o", "l", "o", "r">>)
          [] c = "Option1 Value" ->
                IF frame.rows[n]["Color"].k = "nan" THEN Text(<<>>)
                ELSE frame.rows[n]["Color"]
          [] c = "Option2 Name" -> Text(<<"S", "i", "z", "e">>)
          [] c = "Option2 Value" -> frame.rows[n][size_cols[i]]
          [] c = "Option3 Name" -> NaN
          [] c = "Option3 Value" -> NaN
          [] OTHER -> IntCell(IntegerPart(frame.rows[n][ots_cols[i]]))]

UniqueKeys(frame) ==
    \A a \in DOMAIN frame.rows : \A b \in DOMAIN frame.rows :
        (a # b /\ ~LacksKey(frame)) =>
            \/ frame.rows[a]["Style major"] # frame.rows[b]["Style major"]
            \/ frame.rows[a]["Color"] # frame.rows[b]["Color"]

\* C6: for a table with the required columns and no two rows sharing (Style
\* major, Color), the output is exactly one row per input row and slot with
\* both columns present, quantity > 0 and non-empty trimmed label, and no
\* other rows.
C6_ExactOutput ==
    \A k \in DOMAIN results :
        (~Lacks(df) /\ UniqueKeys(df)) =>
            /\ results[k].raised = "none"
            /\ LET out == results[k].value.rows
                   E == ExpectedPairs(df)
               IN /\ \A t \in DOMAIN out : \E p \in E : out[t] = ExpectedRow(df, p[1], p[2])
                  /\ \A p \in E :
                        Cardinality({t \in DOMAIN out : out[t] = ExpectedRow(df, p[1], p[2])})
                        = Cardinality({q \in E : ExpectedRow(df, q[1], q[2])
                                                  = ExpectedRow(df, p[1], p[2])})

\* C7: for a table with the required columns and any subset of the other slot
\* columns the function raises no error, and every row it keeps belongs to a
\* slot whose 'Size i' and 'ots i' columns are both present.
C7_MissingSlotTolerance ==
    \A k \in DOMAIN results :
        ~Lacks(df) =>
            /\ results[k].raised = "none"
            /\ LET kept == DfCleaned(df)
               IN \A t \in DOMAIN kept : \E i \in 1..8 :
                     /\ BothPresent(df, i)
                     /\ kept[t].Size_Col_Name = size_cols[i]
                     /\ kept[t].OTS_Col_Name = ots_cols[i]

\* the part of C7 about absent slots alone: no call on a table with the
\* required columns raises a KeyError, and a kept row belongs to a slot with
\* both columns present
C7_AbsentSlotsContributeNothing ==
    \A k \in DOMAIN results :
        ~Lacks(df) =>
            /\ results[k].raised # "KeyError"
            /\ LET kept == DfCleaned(df)
               IN \A t \in DOMAIN kept : \E i \in 1..8 :
                     /\ BothPresent(df, i)
                     /\ kept[t].Size_Col_Name = size_cols[i]
                     /\ kept[t].OTS_Col_Name = ots_cols[i]

C9_NoPartialResults ==
    /\ download.offered =>
          /\ error = "none"
          /\ uploaded_file.parses
          /\ ~Lacks(data)
          /\ convert_to_shopify_format(data).raised = "none"
          /\ download.data = ToCsv(convert_to_shopify_format(data).value)
    /\ error # "none" => ~download.offered /\ pc = "done"
    /\ pc = "done" => (download.offered <=> error = "none")

\* C9 witness: a run in which the conversion itself raised has ended with the
\* error and without a download.
C9_Witness ==
    /\ pc = "done"
    /\ convertCalls = 1
    /\ error = "unexpected"
    /\ ~download.offered

\* the (row, slot) pairs of a table that pass the filter of lines 53-56
PassingPairs(frame) ==
    {p \in (DOMAIN frame.rows) \X (1..8) :
        /\ BothPresent(frame, p[2])
        /\ Keep([New_York_Showroom |-> frame.rows[p[1]][ots_cols[p[2]]],
                 Option2_Value |-> frame.rows[p[1]][size_cols[p[2]]]])}

\* C10: each output row has the label and the quantity of one and the same
\* input row and slot, and there are no more output rows than (row, slot)
\* pairs passing the filter, also when rows share (Style major, Color).
C10_SameRowProvenance ==
    \A k \in DOMAIN results :
        results[k].raised = "none" =>
            LET out == results[k].value.rows
            IN /\ \A t \in DOMAIN out : \E p \in PassingPairs(df) :
                     /\ out[t]["Handle"] = df.rows[p[1]]["Style major"]
                     /\ out[t]["Option2 Value"] = df.rows[p[1]][size_cols[p[2]]]
                     /\ out[t]["New York Showroom"] =
                           IntCell(AstypeInt(FillNa(ToNumeric(df.rows[p[1]][ots_cols[p[2]]]),
                                                    Num(0))))
               /\ Len(out) <= Cardinality(PassingPairs(df))

====
